---- MODULE Spec2Model ----
(***************************************************************************)
(* Model of the ecc library: GaloisField<m>, GFPolynomial<m>,              *)
(* HammingCode<n,k>, SECDEDHammingCode<n,k>, BCHCode<m,t> and              *)
(* ReedSolomonCode<n,k,m>.                                                 *)
(*                                                                         *)
(* One object is constructed (an Init predicate per class), then driven by *)
(* calls to its public operations.  Through a codec a word travels         *)
(* encode -> channel -> decode; a field or polynomial object has its       *)
(* operations called on bounded arguments.                                 *)
(* Arrays and bitsets are functions over 0..size-1 (C++ indexing); a       *)
(* std::vector of polynomial coefficients is a sequence whose element i+1  *)
(* is the coefficient of x^i.  size_t is 64 bits wide, Element/Symbol is   *)
(* uint32_t.                                                               *)
(***************************************************************************)
EXTENDS Integers, Sequences, FiniteSets, TLC

VARIABLES
    kind,                 \* the class template and its template arguments
    exp_table,            \* GaloisField::exp_table
    log_table,            \* GaloisField::log_table
    primitive_poly,       \* GaloisField::primitive_poly
    generator_poly,       \* BCHCode / ReedSolomonCode ::generator_poly
    generator_matrix,     \* HammingCode::generator_matrix
    parity_check_matrix,  \* HammingCode::parity_check_matrix
    syndrome_table,       \* HammingCode::syndrome_table
    data,                 \* argument of the last encode call (GFPolynomial: last operation)
    codeword,             \* value returned by the last encode call
    prev_data,            \* argument of the encode call before the last
    prev_codeword,        \* value returned by the encode call before the last
    received,             \* the word after the channel
    errs,                 \* positions the channel has corrupted
    result,               \* value returned by the last decode or field call (GFPolynomial: coefficients)
    calls,                \* the calls that have returned on a shared instance, in order
    pc                    \* "ready", "encoded", "decoded", "dividing", "returned"

vars == <<kind, exp_table, log_table, primitive_poly, generator_poly,
          generator_matrix, parity_check_matrix, syndrome_table,
          data, codeword, prev_data, prev_codeword, received, errs,
          result, calls, pc>>

codec == <<kind, exp_table, log_table, primitive_poly, generator_poly,
           generator_matrix, parity_check_matrix, syndrome_table>>

None == <<>>

(***************************************************************************)
(* Bounds of the exploration.                                              *)
(***************************************************************************)
\* data words of the bit codecs are the k-bit words of value 0..MaxDataValue
MaxDataValue == 15
\* data symbols handed to the Reed-Solomon encoder are 0..MaxSymbol
MaxSymbol == 2
\* error magnitudes the channel adds to a Reed-Solomon symbol are 1..MaxErrVal
MaxErrVal == 2
\* the channel corrupts at most MaxErrors positions of one codeword
MaxErrors == 3
\* the Reed-Solomon instances are the full-length code
\* ReedSolomonCode<2^RS_M - 1, RS_K, RS_M> and the shortened code
\* ReedSolomonCode<2^RS_M - 1 - RS_SHORTEN, RS_K, RS_M>
RS_M == 3
RS_K == 3
RS_SHORTEN == 2
\* field elements handed to the field operations are 0..MaxElement
MaxElement == 15
\* supplied primitive polynomials are tried for GaloisField<3..MaxSuppliedM>
MaxSuppliedM == 4
\* coefficient lists handed to GFPolynomial have at most MaxCoeffs entries,
\* each in 0..MaxCoef; products that need more entries are not formed
MaxCoeffs == 3
MaxCoef == 3
\* the largest number of coefficients of a dividend or divisor handed to
\* polynomial_mod
MaxModLen == 2
\* data_length of the full-length Reed-Solomon code whose
\* error_correction_capability reaches 3: ReedSolomonCode<2^RS_M - 1, 1, RS_M>
RS_K_LONG_PARITY == 1
\* the largest number of calls made on one shared codec instance
MaxCalls == 2
\* the largest data value (read as a bit pattern) handed to a call on a shared
\* instance
MaxCallData == 3

(***************************************************************************)
(* Template arguments of the instances taken from the source's aliases.    *)
(***************************************************************************)
Hamming_n == 7
Hamming_k == 4
\* HammingCode::min_distance
Hamming_min_distance == 3
BCH_m == 4
BCH_t == 2

\* width of Element / Symbol (uint32_t); size_t is wider (64 bits)
ElementBits == 32

\* the largest m BCHCode::get_default_primitive_poly has a polynomial for
MaxDefaultM == 8

RECURSIVE Pow2(_)
Pow2(e) == IF e = 0 THEN 1 ELSE 2 * Pow2(e - 1)

\* the element of a one-element set: Only({F(v) : v \in {e}}) computes e
\* once, as a local variable holds it, and hands its value v to F
Only(S) == CHOOSE x \in S : TRUE

\* bitwise exclusive or of two naturals (operator ^)
RECURSIVE Xor(_, _)
Xor(a, b) ==
    IF a = 0 THEN b
    ELSE IF b = 0 THEN a
    ELSE 2 * Xor(a \div 2, b \div 2) + (((a % 2) + (b % 2)) % 2)

\* bitwise and of two naturals (operator &)
RECURSIVE BitAnd(_, _)
BitAnd(a, b) ==
    IF a = 0 \/ b = 0 THEN 0
    ELSE 2 * BitAnd(a \div 2, b \div 2) + ((a % 2) * (b % 2))

(***************************************************************************)
(* GaloisField<m>                                                          *)
(***************************************************************************)
\* GaloisField::field_size, read off the constructed table
field_size == Cardinality(DOMAIN exp_table)

\* an array slot build_tables never writes (std::array members start
\* indeterminate): exp_table[field_size - 1] always, which no operation reads
\* (every index is taken mod field_size - 1), and log_table[a] for every a
\* that is no power of alpha, which happens only for a polynomial that is not
\* primitive; log_table[0] = 0 is written
Unwritten == -1

\* one round of the exp_table loop of build_tables: value <<= 1, then
\* value ^= primitive_poly when bit m of value is set
shift_reduce(fs, poly, value) ==
    Only({IF BitAnd(shifted, fs) # 0 THEN Xor(shifted, poly) ELSE shifted :
          shifted \in {value * 2}})

\* rounds consecutive rounds of the loop, started from value
RECURSIVE shift_reduce_rounds(_, _, _, _)
shift_reduce_rounds(fs, poly, value, rounds) ==
    IF rounds = 0 THEN value
    ELSE Only({shift_reduce_rounds(fs, poly, next, rounds - 1) :
               next \in {shift_reduce(fs, poly, value)}})

\* the loop is evaluated in runs of LoopRun rounds, which keeps the
\* evaluation of a long loop shallow
LoopRun == 16

\* the variable value of build_tables after round i of the loop (1 before it)
RECURSIVE value_after(_, _, _)
value_after(fs, poly, i) ==
    IF i <= LoopRun THEN shift_reduce_rounds(fs, poly, 1, i)
    ELSE Only({shift_reduce_rounds(fs, poly, before, i - done) :
               done \in {LoopRun * ((i - 1) \div LoopRun)},
               before \in {value_after(fs, poly, LoopRun * ((i - 1) \div LoopRun))}})

\* exp_table after the first loop of build_tables: round i = 1 .. fs-1 writes
\* slot i % (fs - 1), so slot 0 (set to 1 before the loop) is overwritten by
\* the last round and slot fs - 1 is never written
build_exp(fs, poly) ==
    [i \in 0 .. fs - 1 |->
        IF i = 0 THEN value_after(fs, poly, fs - 1)
        ELSE IF i = fs - 1 THEN Unwritten
        ELSE value_after(fs, poly, i)]

\* build_log with log_table[exp_table[i]] = i + 1 in place of i
build_log_off_by_one(fs, exps) ==
    [a \in 0 .. fs - 1 |->
        LET writers == {i \in 0 .. fs - 2 : exps[i] = a}
        IN IF writers # {}
           THEN (CHOOSE i \in writers : \A j \in writers : j <= i) + 1
           ELSE IF a = 0 THEN 0
           ELSE Unwritten]

\* log_table after the second loop of build_tables: i = 0 .. fs-2 writes
\* log_table[exp_table[i]] = i, a later i overwriting an earlier one;
\* a value outside the table is an out-of-bounds write, dropped here
\* (only reachable for a polynomial that has not degree m)
build_log(fs, exps) ==
    [a \in 0 .. fs - 1 |->
        LET writers == {i \in 0 .. fs - 2 : exps[i] = a}
        IN IF writers # {} THEN CHOOSE i \in writers : \A j \in writers : j <= i
           ELSE IF a = 0 THEN 0
           ELSE Unwritten]

\* GaloisField::build_tables: the pair of tables for GaloisField<m>(poly)
build_tables(m, poly) ==
    LET fs == Pow2(m)
    IN Only({[exp |-> exps, log |-> build_log(fs, exps)] :
             exps \in {build_exp(fs, poly)}})

\* galois_utils::get_default_primitive<m>()
get_default_primitive(m) ==
    CASE m = 3 -> 11
      [] m = 4 -> 19
      [] m = 5 -> 37
      [] m = 6 -> 67
      [] m = 7 -> 137
      [] m = 8 -> 285
      [] m = 10 -> 1033
      [] m = 12 -> 4179
      [] OTHER -> Xor(Pow2(m), 3)

\* GaloisField::add
add(a, b) == Xor(a, b)

\* multiply without the test b == 0
multiply_unchecked_b(a, b) ==
    IF a = 0 THEN 0
    ELSE exp_table[(log_table[a] + log_table[b]) % (field_size - 1)]

\* GaloisField::multiply
multiply(a, b) ==
    IF a = 0 \/ b = 0 THEN 0
    ELSE exp_table[(log_table[a] + log_table[b]) % (field_size - 1)]

\* (2^e) mod n, computed without leaving the small integers
RECURSIVE Pow2Mod(_, _)
Pow2Mod(e, n) == IF e = 0 THEN 1 % n ELSE (2 * Pow2Mod(e - 1, n)) % n

\* GaloisField::divide (b # 0; b = 0 throws).  log_table[a] - log_table[b]
\* is a uint32_t difference: a negative difference d wraps to 2^32 + d and
\* is then widened to the 64-bit size_t, where 2^32 + d + field_size - 1
\* does not wrap again; the index is that sum mod field_size - 1.
divide(a, b) ==
    IF a = 0 THEN 0
    ELSE LET d == log_table[a] - log_table[b]
             wrap == IF d < 0 THEN Pow2Mod(ElementBits, field_size - 1) ELSE 0
         IN exp_table[(wrap + d + field_size - 1) % (field_size - 1)]

\* GaloisField::power
power(base, exponent) ==
    IF base = 0 THEN (IF exponent = 0 THEN 1 ELSE 0)
    ELSE exp_table[(log_table[base] * exponent) % (field_size - 1)]

\* GaloisField::inverse (a # 0; a = 0 throws)
inverse(a) ==
    exp_table[(field_size - 1 - log_table[a]) % (field_size - 1)]

\* GaloisField::get_primitive
get_primitive == 2

\* rounds consecutive rounds current = multiply(current, alpha)
RECURSIVE multiply_rounds(_, _, _)
multiply_rounds(current, alpha, rounds) ==
    IF rounds = 0 THEN current
    ELSE Only({multiply_rounds(next, alpha, rounds - 1) :
               next \in {multiply(current, alpha)}})

\* the variable current of is_primitive when round i of its loop starts
\* (alpha when round 1 starts)
RECURSIVE current_at(_, _)
current_at(alpha, i) ==
    IF i <= LoopRun THEN multiply_rounds(alpha, alpha, i - 1)
    ELSE Only({multiply_rounds(before, alpha, i - done) :
               done \in {LoopRun * ((i - 1) \div LoopRun)},
               before \in {current_at(alpha, LoopRun * ((i - 1) \div LoopRun))}})

\* GaloisField::is_primitive: the loop runs i = 1 .. field_size - 2 and
\* returns false in a round that starts with current = 1
is_primitive(alpha) ==
    /\ alpha > 1
    /\ \A i \in 1 .. field_size - 2 : current_at(alpha, i) # 1
    /\ current_at(alpha, field_size - 1) = 1

(***************************************************************************)
(* GFPolynomial<m>                                                         *)
(***************************************************************************)
\* the length a coefficient list has once its trailing zeros are popped
RECURSIVE trimmed_size(_, _)
trimmed_size(c, size) ==
    IF size > 0 /\ c[size] = 0 THEN trimmed_size(c, size - 1) ELSE size

\* GFPolynomial::normalize
normalize(coeffs) ==
    Only({IF trimmed_size(c, Len(c)) = 0 THEN <<0>>
          ELSE SubSeq(c, 1, trimmed_size(c, Len(c))) : c \in {coeffs}})

\* GFPolynomial::GFPolynomial(gf, coeffs)
Polynomial(coeffs) == normalize(coeffs)

\* GFPolynomial::degree
degree(p) == IF Len(p) = 0 THEN 0 ELSE Len(p) - 1

\* GFPolynomial::operator[] (and the accessor coefficient(i) of the callers)
coefficient(p, index) == IF index < Len(p) THEN p[index + 1] ELSE 0

\* set_coefficient without the closing call of normalize
set_coefficient_unnormalized(p, index, value) ==
    LET resized == IF index >= Len(p)
                   THEN p \o [i \in 1 .. (index + 1 - Len(p)) |-> 0]
                   ELSE p
    IN [resized EXCEPT ![index + 1] = value]

\* GFPolynomial::set_coefficient
set_coefficient(p, index, value) ==
    LET resized == IF index >= Len(p)
                   THEN p \o [i \in 1 .. (index + 1 - Len(p)) |-> 0]
                   ELSE p
    IN normalize([resized EXCEPT ![index + 1] = value])

\* GFPolynomial::is_zero
is_zero(p) == \A i \in 1 .. Len(p) : p[i] = 0

\* GFPolynomial::operator+
PolyAdd(p, q) ==
    LET max_size == IF Len(p) >= Len(q) THEN Len(p) ELSE Len(q)
    IN Polynomial([i \in 1 .. max_size |->
                      add(coefficient(p, i - 1), coefficient(q, i - 1))])

\* the accumulation result[i + j] ^= coefficients[i] * other[j] for one
\* result index idx, i running from i upward
RECURSIVE MulAcc(_, _, _, _)
MulAcc(p, q, idx, i) ==
    IF i >= Len(p) \/ i > idx THEN 0
    ELSE add(IF idx - i < Len(q) THEN multiply(p[i + 1], q[idx - i + 1]) ELSE 0,
             MulAcc(p, q, idx, i + 1))

\* GFPolynomial::operator*
PolyMul(p, q) ==
    IF is_zero(p) \/ is_zero(q) THEN Polynomial(<<0>>)
    ELSE Polynomial([idx \in 1 .. (Len(p) + Len(q) - 1) |->
                        MulAcc(p, q, idx - 1, 0)])

\* the Horner loop of evaluate: i runs from size-2 down to 0
RECURSIVE Horner(_, _, _, _)
Horner(p, x, i, acc) ==
    IF i < 0 THEN acc
    ELSE Only({Horner(p, x, i - 1, r) : r \in {add(multiply(acc, x), p[i + 1])}})

\* GFPolynomial::evaluate
evaluate(p, x) ==
    IF Len(p) = 0 THEN 0
    ELSE Only({Horner(p, v, Len(p) - 2, p[Len(p)]) : v \in {x}})

(***************************************************************************)
(* HammingCode<n,k>                                                        *)
(***************************************************************************)
\* HammingCode::code_length and data_length (the template arguments)
H_n == kind.n
H_k == kind.k
\* HammingCode::parity_length
H_r == H_n - H_k

\* the generator matrix G = [I_k | P] built by generate_matrices
make_generator_matrix(n, k) ==
    [i \in 0 .. k - 1 |->
        [c \in 0 .. n - 1 |->
            IF c = i THEN 1
            ELSE IF c >= k /\ BitAnd(i + 1, Pow2(c - k)) # 0 THEN 1
            ELSE 0]]

\* the parity check matrix H = [P^T | I_(n-k)] built by generate_matrices
make_parity_check_matrix(n, k, G) ==
    [i \in 0 .. n - k - 1 |->
        [j \in 0 .. n - 1 |->
            IF j < k THEN G[j][k + i]
            ELSE IF j = k + i THEN 1
            ELSE 0]]

\* exclusive-or of f[j] for j in lo .. hi (the loops  bit ^= ... )
RECURSIVE XorBits(_, _, _)
XorBits(f, lo, hi) ==
    IF lo > hi THEN 0 ELSE (f[lo] + XorBits(f, lo + 1, hi)) % 2

\* HammingCode::calculate_syndrome, for the parity check matrix H
syndrome_of(H, n, word) ==
    [i \in DOMAIN H |->
        XorBits([j \in 0 .. n - 1 |-> word[j] * H[i][j]], 0, n - 1)]

\* std::bitset::to_ulong
RECURSIVE to_ulong_from(_, _, _)
to_ulong_from(bits, i, size) ==
    IF i >= size THEN 0
    ELSE bits[i] * Pow2(i) + to_ulong_from(bits, i + 1, size)

to_ulong(bits) == to_ulong_from(bits, 0, Cardinality(DOMAIN bits))

\* the loop of build_syndrome_table: pos runs 0 .. n-1, a later position
\* overwrites an earlier one that has the same syndrome
RECURSIVE fill_syndrome_table(_, _, _, _)
fill_syndrome_table(H, n, pos, table) ==
    IF pos >= n THEN table
    ELSE LET error_pattern == [j \in 0 .. n - 1 |-> IF j = pos THEN 1 ELSE 0]
             syndrome == syndrome_of(H, n, error_pattern)
         IN Only({fill_syndrome_table(H, n, pos + 1, next) :
                  next \in {[table EXCEPT ![to_ulong(syndrome)] = pos]}})

\* build_syndrome_table with the table filled with 0 in place of n: the zero
\* syndrome then names position 0
build_syndrome_table_zero_fill(H, n, k) ==
    fill_syndrome_table(H, n, 0, [s \in 0 .. Pow2(n - k) - 1 |-> 0])

\* HammingCode::build_syndrome_table
build_syndrome_table(H, n, k) ==
    fill_syndrome_table(H, n, 0, [s \in 0 .. Pow2(n - k) - 1 |-> n])

\* HammingCode::calculate_syndrome
calculate_syndrome(word) == syndrome_of(parity_check_matrix, H_n, word)

\* HammingCode::encode
Hamming_encode(d) ==
    [c \in 0 .. H_n - 1 |->
        IF c < H_k THEN d[c]
        ELSE XorBits([j \in 0 .. H_k - 1 |-> d[j] * generator_matrix[j][c]],
                     0, H_k - 1)]

\* std::bitset::flip(pos)
flip(word, pos) == [word EXCEPT ![pos] = 1 - word[pos]]

\* HammingCode::correct_errors
correct_errors(word, syndrome) ==
    LET error_pos == syndrome_table[to_ulong(syndrome)]
    IN IF error_pos < H_n THEN flip(word, error_pos) ELSE word

\* HammingCode::decode
Hamming_decode(word) ==
    Only({[i \in 0 .. H_k - 1 |-> corrected[i]] :
          corrected \in {correct_errors(word, calculate_syndrome(word))}})

\* HammingCode::decode_with_detection
decode_with_detection(word) ==
    Only({LET detected == error_pos < H_n
              corrected == IF detected THEN flip(word, error_pos) ELSE word
          IN [data |-> [i \in 0 .. H_k - 1 |-> corrected[i]],
              error_detected |-> detected,
              error_position |-> error_pos] :
          error_pos \in {syndrome_table[to_ulong(calculate_syndrome(word))]}})

(***************************************************************************)
(* SECDEDHammingCode<n,k> : HammingCode<n+1,k>                             *)
(* The object is its base HammingCode<n+1,k>: kind.n is the base's         *)
(* code_length n+1, and encode is the base's encode.  The class body is    *)
(* taken as written; the base's requires-clause ValidHammingParams<n+1,k>  *)
(* holds for no n, k.                                                      *)
(***************************************************************************)
\* the template argument n of SECDEDHammingCode<n,k>
SECDED_n == kind.n - 1

\* std::bitset::count() % 2
overall_parity_of(word) == XorBits(word, 0, H_n - 1)

\* SECDEDHammingCode::decode_secded; SECDEDResult result is default
\* initialised: data is the zero bitset, error_position holds whatever the
\* stack held (indeterminate) until a branch assigns it
decode_secded(word, indeterminate) ==
    LET syndrome == calculate_syndrome(word)
        overall_parity == overall_parity_of(word)
        none == to_ulong(syndrome) = 0
        zero_data == [i \in 0 .. H_k - 1 |-> 0]
    IN IF none
       THEN IF overall_parity = 0
            THEN [data |-> zero_data, status |-> "NO_ERROR",
                  error_position |-> indeterminate]
            ELSE [data |-> zero_data, status |-> "SINGLE_ERROR_CORRECTED",
                  error_position |-> SECDED_n]
       ELSE IF overall_parity = 1
            THEN Only({[data |-> decode_result.data,
                        status |-> "SINGLE_ERROR_CORRECTED",
                        error_position |-> decode_result.error_position] :
                       decode_result \in {decode_with_detection(word)}})
            ELSE [data |-> zero_data, status |-> "DOUBLE_ERROR_DETECTED",
                  error_position |-> indeterminate]

(***************************************************************************)
(* BCHCode<m,t>                                                            *)
(***************************************************************************)
\* BCHCode::error_capacity, code_length, parity_length, data_length
B_t == kind.t
B_n == Pow2(kind.m) - 1
B_parity == kind.m * kind.t
B_k == B_n - B_parity

\* the elements of a finite set of numbers in ascending order (std::sort)
RECURSIVE SortedSeq(_)
SortedSeq(S) ==
    IF S = {} THEN <<>>
    ELSE LET lo == CHOOSE x \in S : \A y \in S : x <= y
         IN <<lo>> \o SortedSeq(S \ {lo})

\* the product loop of generate_bch_polynomial / generate_polynomial:
\* g = g * (root + x) for the roots from index i on
RECURSIVE MulRoots(_, _, _)
MulRoots(g, roots, i) ==
    IF i > Len(roots) THEN g
    ELSE Only({MulRoots(product, roots, i + 1) :
               product \in {PolyMul(g, Polynomial(<<roots[i], 1>>))}})

\* BCHCode::generate_bch_polynomial: the roots alpha^1 .. alpha^2t, sorted,
\* duplicates removed, and the product of the factors (x - root)
generate_bch_polynomial(t) ==
    Only({MulRoots(<<1>>, roots, 1) :
          roots \in {SortedSeq({power(get_primitive, i) : i \in 1 .. 2 * t})}})

\* Euclidean division (GFPolynomial::divmod), the remainder loop:
\* while deg r >= deg b and r # 0, cancel the leading term of r
RECURSIVE divmod_loop(_, _, _)
divmod_loop(q, r, b) ==
    IF is_zero(r) \/ degree(r) < degree(b) THEN [quotient |-> q, remainder |-> r]
    ELSE LET shift == degree(r) - degree(b)
             factor == divide(r[Len(r)], b[Len(b)])
             term == [i \in 1 .. Len(r) |->
                         IF i - 1 >= shift
                         THEN multiply(factor, coefficient(b, i - 1 - shift))
                         ELSE 0]
         IN Only({divmod_loop(q2, r2, b) :
                  q2 \in {set_coefficient(q, shift, factor)},
                  r2 \in {PolyAdd(r, Polynomial(term))}})

\* GFPolynomial::divmod (divisor nonzero)
divmod(a, b) == divmod_loop(Polynomial(<<0>>), a, b)

\* BCHCode::encode
BCH_encode(d) ==
    Only({[c \in 0 .. B_n - 1 |->
              IF c >= B_parity THEN d[c - B_parity]
              ELSE IF coefficient(remainder, c) # 0 THEN 1 ELSE 0] :
          remainder \in
              {Only({divmod(shifted_data, generator_poly).remainder :
                     shifted_data \in
                         {Only({Polynomial([i \in 1 .. B_k + B_parity |->
                                               IF i - 1 >= B_parity
                                               THEN coefficient(data_poly, i - 1 - B_parity)
                                               ELSE 0]) :
                                data_poly \in {Polynomial([j \in 1 .. B_k |-> d[j - 1]])}})}})}})

\* BCHCode::calculate_syndromes
BCH_calculate_syndromes(word) ==
    Only({[i \in 1 .. 2 * B_t |->
              evaluate(received_poly, power(get_primitive, i))] :
          received_poly \in {Polynomial([i \in 1 .. B_n |-> word[i - 1]])}})

\* the discrepancy loop: d ^= C[i] * syndromes[n - i] for i = i .. L
RECURSIVE discrepancy(_, _, _, _, _)
discrepancy(C, syndromes, n, L, i) ==
    IF i > L THEN 0
    ELSE add(multiply(coefficient(C, i), syndromes[n - i + 1]),
             discrepancy(C, syndromes, n, L, i + 1))

\* the main loop of BCHCode::berlekamp_massey, from syndrome index n on
RECURSIVE BCH_bm_loop(_, _, _, _, _, _, _)
BCH_bm_loop(syndromes, n, C, B, L, pos, b) ==
    IF n >= Len(syndromes) THEN C
    ELSE Only({
           IF d = 0
           THEN BCH_bm_loop(syndromes, n + 1, C, B, L, pos + 1, b)
           ELSE LET coeff == divide(d, b)
                    correction ==
                        Polynomial([i \in 1 .. pos + degree(B) + 1 |->
                                       IF i - 1 >= pos
                                       THEN multiply(coeff, coefficient(B, i - 1 - pos))
                                       ELSE 0])
                IN Only({IF 2 * L <= n
                         THEN BCH_bm_loop(syndromes, n + 1, C2, C, n + 1 - L, 1, d)
                         ELSE BCH_bm_loop(syndromes, n + 1, C2, B, L, pos + 1, b) :
                         C2 \in {PolyAdd(C, correction)}}) :
           d \in {add(syndromes[n + 1], discrepancy(C, syndromes, n, L, 1))}})

\* BCHCode::berlekamp_massey
BCH_berlekamp_massey(syndromes) ==
    BCH_bm_loop(syndromes, 0, Polynomial(<<1>>), Polynomial(<<1>>), 0, 1, 1)

\* the loop of chien_search over positions i .. n-1 of a word of length n
RECURSIVE chien_loop(_, _, _)
chien_loop(error_locator, n, i) ==
    IF i >= n THEN <<>>
    ELSE LET alpha_inv == power(get_primitive, n - 1 - i)
         IN (IF evaluate(error_locator, alpha_inv) = 0 THEN <<i>> ELSE <<>>)
            \o chien_loop(error_locator, n, i + 1)

\* BCHCode::chien_search
BCH_chien_search(error_locator) == chien_loop(error_locator, B_n, 0)

\* the set of the entries of a sequence
Range(s) == {s[i] : i \in 1 .. Len(s)}

\* BCHCode::decode
BCH_decode(word) ==
    LET raw == [i \in 0 .. B_k - 1 |-> word[i + B_parity]]
    IN Only({
         IF \A i \in 1 .. Len(syndromes) : syndromes[i] = 0
         THEN [data |-> raw, success |-> TRUE,
               errors_corrected |-> 0, error_positions |-> <<>>]
         ELSE Only({
                IF Len(error_positions) > B_t
                THEN [data |-> raw, success |-> FALSE,
                      errors_corrected |-> 0, error_positions |-> <<>>]
                ELSE [data |-> [i \in 0 .. B_k - 1 |->
                                   IF i + B_parity \in Range(error_positions)
                                   THEN 1 - word[i + B_parity]
                                   ELSE word[i + B_parity]],
                      success |-> TRUE,
                      errors_corrected |-> Len(error_positions),
                      error_positions |-> error_positions] :
                error_positions \in
                    {Only({BCH_chien_search(error_locator) :
                           error_locator \in {BCH_berlekamp_massey(syndromes)}})}}) :
         syndromes \in {BCH_calculate_syndromes(word)}})

(***************************************************************************)
(* ReedSolomonCode<n,k,m>                                                  *)
(***************************************************************************)
\* ReedSolomonCode::code_length, data_length, parity_length,
\* error_correction_capability
R_n == kind.n
R_k == kind.k
R_parity == R_n - R_k
R_t == R_parity \div 2

\* generate_polynomial with the last root alpha^parity left out
generate_polynomial_short(parity) ==
    MulRoots(Polynomial(<<1>>),
             [i \in 1 .. parity - 1 |-> power(get_primitive, i)], 1)

\* ReedSolomonCode::generate_polynomial
generate_polynomial(parity) ==
    MulRoots(Polynomial(<<1>>),
             [i \in 1 .. parity |-> power(get_primitive, i)], 1)

\* the inner loop of polynomial_mod: quotient[i + shift] ^= factor * divisor[i]
\* for i = i .. divisor_degree, through set_coefficient
RECURSIVE mod_subtract(_, _, _, _, _)
mod_subtract(quotient, divisor, factor, shift, i) ==
    IF i > degree(divisor) THEN quotient
    ELSE LET term == multiply(factor, coefficient(divisor, i))
             current == coefficient(quotient, i + shift)
         IN Only({mod_subtract(next, divisor, factor, shift, i + 1) :
                  next \in {set_coefficient(quotient, i + shift, add(current, term))}})

\* the condition of the while loop of polynomial_mod
mod_continues(quotient, divisor) ==
    degree(quotient) >= degree(divisor) /\ ~is_zero(quotient)

\* one round of the while loop of polynomial_mod: quotient loses
\* factor * x^shift * divisor
mod_round(quotient, divisor) ==
    LET lead_coeff == coefficient(quotient, degree(quotient))
        divisor_lead == coefficient(divisor, degree(divisor))
        factor == divide(lead_coeff, divisor_lead)
        shift == degree(quotient) - degree(divisor)
    IN mod_subtract(quotient, divisor, factor, shift, 0)

\* ReedSolomonCode::polynomial_mod
RECURSIVE polynomial_mod(_, _)
polynomial_mod(dividend, divisor) ==
    IF mod_continues(dividend, divisor)
    THEN Only({polynomial_mod(next, divisor) :
               next \in {mod_round(dividend, divisor)}})
    ELSE dividend

\* encode with the parity symbols first and the data symbols after them
RS_encode_parity_first(d) ==
    Only({[c \in 0 .. R_n - 1 |->
              IF c < R_parity THEN coefficient(remainder, c) ELSE d[c - R_parity]] :
          remainder \in
              {Only({polynomial_mod(shifted_poly, generator_poly) :
                     shifted_poly \in
                         {Polynomial([i \in 1 .. R_n |->
                                         IF i - 1 >= R_parity
                                         THEN d[i - 1 - R_parity] ELSE 0])}})}})

\* ReedSolomonCode::encode
RS_encode(d) ==
    Only({[c \in 0 .. R_n - 1 |->
              IF c < R_k THEN d[c] ELSE coefficient(remainder, c - R_k)] :
          remainder \in
              {Only({polynomial_mod(shifted_poly, generator_poly) :
                     shifted_poly \in
                         {Polynomial([i \in 1 .. R_n |->
                                         IF i - 1 >= R_parity
                                         THEN d[i - 1 - R_parity] ELSE 0])}})}})

\* the inner loop of calculate_syndromes over the symbols j .. n-1
RECURSIVE syndrome_sum(_, _, _, _)
syndrome_sum(word, alpha_power, j, current_power) ==
    IF j >= R_n THEN 0
    ELSE Only({add(multiply(word[j], current_power),
                   syndrome_sum(word, alpha_power, j + 1, next_power)) :
               next_power \in {multiply(current_power, alpha_power)}})

\* ReedSolomonCode::calculate_syndromes
RS_calculate_syndromes(word) ==
    [i \in 1 .. R_parity |->
        Only({syndrome_sum(word, alpha_power, 0, 1) :
              alpha_power \in {power(get_primitive, i)}})]

\* the update loop of ReedSolomonCode::berlekamp_massey:
\* C[idx + pos] ^= d_inv * B[idx] while idx + pos < parity_length + 1
\* (C and B are 1-based sequences of length parity_length + 1)
RS_bm_update(C, B, d_inv, pos) ==
    [c \in 1 .. Len(C) |->
        IF c - 1 >= pos
        THEN add(C[c], multiply(d_inv, B[c - pos]))
        ELSE C[c]]

\* the main loop of ReedSolomonCode::berlekamp_massey, from index i on
RECURSIVE RS_bm_loop(_, _, _, _, _, _)
RS_bm_loop(syndromes, i, C, B, L, pos) ==
    IF i >= R_parity THEN Polynomial(SubSeq(C, 1, L + 1))
    ELSE Only({
           IF d = 0
           THEN RS_bm_loop(syndromes, i + 1, C, B, L, pos + 1)
           ELSE Only({IF 2 * L <= i
                      THEN RS_bm_loop(syndromes, i + 1, C2, C, i + 1 - L, 1)
                      ELSE RS_bm_loop(syndromes, i + 1, C2, B, L, pos + 1) :
                      C2 \in {RS_bm_update(C, B, inverse(d), pos)}}) :
           d \in {add(syndromes[i + 1], discrepancy(C, syndromes, i, L, 1))}})

\* ReedSolomonCode::berlekamp_massey
RS_berlekamp_massey(syndromes) ==
    LET one == [c \in 1 .. R_parity + 1 |-> IF c = 1 THEN 1 ELSE 0]
    IN RS_bm_loop(syndromes, 0, one, one, 0, 1)

\* ReedSolomonCode::chien_search
RS_chien_search(error_locator) == chien_loop(error_locator, R_n, 0)

\* the derivative loop of forney_algorithm: the coefficients
\* error_locator[1], error_locator[3], ... pushed one after the other
RECURSIVE derivative_coeffs(_, _)
derivative_coeffs(error_locator, i) ==
    IF i > degree(error_locator) THEN <<>>
    ELSE <<coefficient(error_locator, i)>> \o derivative_coeffs(error_locator, i + 2)

\* the reverse of a sequence (iteration rbegin .. rend)
Reverse(s) == [i \in 1 .. Len(s) |-> s[Len(s) + 1 - i]]

\* ReedSolomonCode::forney_algorithm; a magnitude whose denominator is zero
\* keeps the 0 the result vector was created with
forney_algorithm(syndromes, error_locator, error_positions) ==
    Only({[i \in 1 .. Len(error_positions) |->
              Only({IF denominator # 0 THEN divide(numerator, denominator) ELSE 0 :
                    numerator \in {evaluate(error_evaluator,
                                       power(get_primitive, R_n - 1 - error_positions[i]))},
                    denominator \in {evaluate(error_locator_derivative,
                                       power(get_primitive, R_n - 1 - error_positions[i]))}})] :
          error_evaluator \in
              {Only({PolyMul(syndrome_poly, error_locator) :
                     syndrome_poly \in {Polynomial(Reverse(syndromes))}})},
          error_locator_derivative \in
              {Polynomial(derivative_coeffs(error_locator, 1))}})

\* the correction loop of decode: corrected[positions[i]] ^= values[i]
RECURSIVE apply_corrections(_, _, _, _)
apply_corrections(word, positions, values, i) ==
    IF i > Len(positions) THEN word
    ELSE Only({apply_corrections(next, positions, values, i + 1) :
               next \in {[word EXCEPT ![positions[i]] =
                              add(word[positions[i]], values[i])]}})

\* ReedSolomonCode::decode; DecodeResult result{} starts with a zero data
\* word, success = false, errors_corrected = 0 and no positions
RS_decode(word) ==
    Only({
      IF ~(\E i \in 1 .. Len(syndromes) : syndromes[i] # 0)
      THEN [data |-> [i \in 0 .. R_k - 1 |-> word[i]], success |-> TRUE,
            errors_corrected |-> 0, error_positions |-> <<>>]
      ELSE Only({
             Only({
               IF Len(error_positions) > R_t
               THEN [data |-> [i \in 0 .. R_k - 1 |-> 0], success |-> FALSE,
                     errors_corrected |-> 0, error_positions |-> <<>>]
               ELSE Only({
                      Only({[data |-> [i \in 0 .. R_k - 1 |-> corrected[i]],
                             success |-> TRUE,
                             errors_corrected |-> Len(error_positions),
                             error_positions |-> error_positions] :
                            corrected \in {apply_corrections(word, error_positions,
                                                             error_values, 1)}}) :
                      error_values \in {forney_algorithm(syndromes, error_locator,
                                                         error_positions)}}) :
               error_positions \in {RS_chien_search(error_locator)}}) :
             error_locator \in {RS_berlekamp_massey(syndromes)}}) :
      syndromes \in {RS_calculate_syndromes(word)}})

(***************************************************************************)
(* Construction                                                            *)
(***************************************************************************)
\* BCHCode::get_default_primitive_poly (m <= 8 by its static_assert)
BCH_get_default_primitive_poly(m) ==
    CASE m = 3 -> 11
      [] m = 4 -> 19
      [] m = 5 -> 37
      [] m = 6 -> 67
      [] m = 7 -> 137
      [] m = 8 -> 285

\* ReedSolomonCode::get_default_primitive_poly
RS_get_default_primitive_poly(m) ==
    CASE m = 8 -> 285
      [] m = 10 -> 1033
      [] m = 12 -> 4179
      [] OTHER -> 3

\* a ReedSolomonCode<n,k,m> instance (the requires-clause: n <= 2^m - 1,
\* k <= n); error_correction_capability = (n - k) / 2
RSInstance(n, k, m) ==
    [class |-> "ReedSolomonCode", n |-> n, k |-> k, m |-> m,
     t |-> (n - k) \div 2]

\* the instances explored: Hamming_7_4, BCH_15_5_3, a full-length and a
\* shortened Reed-Solomon code over GF(2^RS_M); every instance carries the
\* constants its class derives from the template arguments
Instances ==
    { [class |-> "HammingCode", n |-> Hamming_n, k |-> Hamming_k,
       m |-> Hamming_n - Hamming_k, t |-> 1],
      [class |-> "BCHCode", n |-> Pow2(BCH_m) - 1,
       k |-> Pow2(BCH_m) - 1 - BCH_m * BCH_t, m |-> BCH_m, t |-> BCH_t],
      RSInstance(Pow2(RS_M) - 1, RS_K, RS_M),
      RSInstance(Pow2(RS_M) - 1 - RS_SHORTEN, RS_K, RS_M) }

\* HammingCode::HammingCode()
HammingInit ==
    /\ kind.class = "HammingCode"
    /\ generator_matrix = make_generator_matrix(kind.n, kind.k)
    /\ parity_check_matrix =
           make_parity_check_matrix(kind.n, kind.k, generator_matrix)
    /\ syndrome_table = build_syndrome_table(parity_check_matrix, kind.n, kind.k)
    /\ exp_table = None
    /\ log_table = None
    /\ primitive_poly = None
    /\ generator_poly = None

\* SECDED_8_4 = SECDEDHammingCode<7,4>
SECDEDInstance ==
    [class |-> "SECDEDHammingCode", n |-> Hamming_n + 1, k |-> Hamming_k,
     m |-> Hamming_n + 1 - Hamming_k, t |-> 1]

\* SECDEDHammingCode has no constructor of its own: HammingCode<n+1,k>()
SECDEDInit ==
    /\ kind = SECDEDInstance
    /\ generator_matrix = make_generator_matrix(kind.n, kind.k)
    /\ parity_check_matrix =
           make_parity_check_matrix(kind.n, kind.k, generator_matrix)
    /\ syndrome_table = build_syndrome_table(parity_check_matrix, kind.n, kind.k)
    /\ exp_table = None
    /\ log_table = None
    /\ primitive_poly = None
    /\ generator_poly = None

\* GaloisField::GaloisField(prim_poly)
FieldInit(m, poly) ==
    /\ primitive_poly = poly
    /\ \E tables \in {build_tables(m, poly)} :
           /\ exp_table = tables.exp
           /\ log_table = tables.log

\* BCHCode::BCHCode() -> BCHCode(get_default_primitive_poly())
BCHInit ==
    /\ kind.class = "BCHCode"
    /\ FieldInit(kind.m, BCH_get_default_primitive_poly(kind.m))
    /\ generator_poly = generate_bch_polynomial(kind.t)
    /\ generator_matrix = None
    /\ parity_check_matrix = None
    /\ syndrome_table = None

\* ReedSolomonCode::ReedSolomonCode(primitive_polynomial), handed the
\* primitive polynomial galois_utils::get_default_primitive<m>()
RSInit ==
    /\ kind.class = "ReedSolomonCode"
    /\ FieldInit(kind.m, get_default_primitive(kind.m))
    /\ generator_poly = generate_polynomial(kind.n - kind.k)
    /\ generator_matrix = None
    /\ parity_check_matrix = None
    /\ syndrome_table = None

\* no operation has been called on the codec yet
NoCall ==
    /\ data = None
    /\ codeword = None
    /\ prev_data = None
    /\ prev_codeword = None
    /\ received = None
    /\ errs = {}
    /\ result = None
    /\ calls = <<>>
    /\ pc = "ready"

\* a constructed codec of any of the classes
Init ==
    /\ kind \in Instances
    /\ (HammingInit \/ BCHInit \/ RSInit)
    /\ NoCall

\* a constructed HammingCode
InitHamming ==
    /\ kind \in Instances
    /\ HammingInit
    /\ NoCall

\* a constructed SECDEDHammingCode
InitSECDED ==
    /\ SECDEDInit
    /\ NoCall

\* the field orders that have a listed default polynomial in every class
FieldOrders == 3 .. MaxDefaultM

\* a GaloisField<m> object constructed as run_comprehensive_tests does, from
\* galois_utils::get_default_primitive<m>()
InitField ==
    /\ \E m \in FieldOrders :
           /\ kind = [class |-> "GaloisField", m |-> m, origin |-> "galois_utils"]
           /\ FieldInit(m, get_default_primitive(m))
    /\ generator_poly = None
    /\ generator_matrix = None
    /\ parity_check_matrix = None
    /\ syndrome_table = None
    /\ NoCall

\* the orders for which the table loop run on ReedSolomonCode's default
\* polynomial cannot wrap the 32-bit value: the polynomial has bit m, so every
\* value is reduced below field_size, or the loop makes fewer than 32 shifts
RSDefaultOrders ==
    {m \in FieldOrders :
        \/ BitAnd(RS_get_default_primitive_poly(m), Pow2(m)) # 0
        \/ Pow2(m) < ElementBits}

\* the polynomials a caller hands to GaloisField<m>(prim_poly): those of
\* degree m, which keep every value the table loop computes below field_size
SuppliedPolynomials(m) == Pow2(m) .. 2 * Pow2(m) - 1

\* the GaloisField<m> object a constructor leaves behind: built by the default
\* constructor of BCHCode<m,t> or ReedSolomonCode<n,k,m>, by
\* galois_utils::get_default_primitive<m>(), or from a supplied polynomial
InitFieldOf ==
    /\ \/ \E m \in FieldOrders :
              /\ kind = [class |-> "GaloisField", m |-> m, origin |-> "BCHCode"]
              /\ FieldInit(m, BCH_get_default_primitive_poly(m))
       \/ \E m \in RSDefaultOrders :
              /\ kind = [class |-> "GaloisField", m |-> m,
                         origin |-> "ReedSolomonCode"]
              /\ FieldInit(m, RS_get_default_primitive_poly(m))
       \/ \E m \in FieldOrders :
              /\ kind = [class |-> "GaloisField", m |-> m, origin |-> "galois_utils"]
              /\ FieldInit(m, get_default_primitive(m))
       \/ \E m \in 3 .. MaxSuppliedM : \E poly \in SuppliedPolynomials(m) :
              /\ kind = [class |-> "GaloisField", m |-> m, origin |-> "supplied"]
              /\ FieldInit(m, poly)
    /\ generator_poly = None
    /\ generator_matrix = None
    /\ parity_check_matrix = None
    /\ syndrome_table = None
    /\ NoCall

\* the coefficient lists handed to the GFPolynomial constructor: every list
\* of at most MaxCoeffs coefficients, the empty list and lists with trailing
\* zeros among them
RECURSIVE ListsOfLength(_)
ListsOfLength(len) ==
    IF len = 0 THEN {<<>>}
    ELSE {Append(l, c) : l \in ListsOfLength(len - 1), c \in 0 .. MaxCoef}

CoefficientLists == UNION {ListsOfLength(len) : len \in 0 .. MaxCoeffs}

\* a GFPolynomial<m> object constructed from a coefficient list over the
\* field GaloisField<m>(galois_utils::get_default_primitive<m>()); result
\* holds its member coefficients
InitPoly ==
    /\ kind = [class |-> "GFPolynomial", m |-> RS_M]
    /\ FieldInit(kind.m, get_default_primitive(kind.m))
    /\ generator_poly = None
    /\ generator_matrix = None
    /\ parity_check_matrix = None
    /\ syndrome_table = None
    /\ data = "GFPolynomial"
    /\ codeword = None
    /\ prev_data = None
    /\ prev_codeword = None
    /\ received = None
    /\ errs = {}
    /\ calls = <<>>
    /\ pc = "returned"
    /\ \E coeffs \in CoefficientLists : result = Polynomial(coeffs)

\* the field of a ReedSolomonCode<n,k,m>, m = 3 .. 8, on which the codec's
\* polynomial_mod is about to be called
InitMod ==
    /\ \E m \in FieldOrders :
           /\ kind = [class |-> "polynomial_mod", m |-> m]
           /\ FieldInit(m, get_default_primitive(m))
    /\ generator_poly = None
    /\ generator_matrix = None
    /\ parity_check_matrix = None
    /\ syndrome_table = None
    /\ NoCall

\* a constructed codec of any class, SECDEDHammingCode included, that is
\* about to be shared by several calls
InitCalls ==
    /\ \/ kind \in Instances /\ (HammingInit \/ BCHInit \/ RSInit)
       \/ SECDEDInit
    /\ NoCall

\* the BCH type aliases: the name, the code length and data length the name
\* states, and the template arguments m, t of the BCHCode the alias stands for
BCHAliases ==
    { [alias |-> "BCH_15_7_3", named_n |-> 15, named_k |-> 7, m |-> 4, t |-> 1],
      [alias |-> "BCH_15_5_3", named_n |-> 15, named_k |-> 5, m |-> 4, t |-> 2],
      [alias |-> "BCH_31_21_3", named_n |-> 31, named_k |-> 21, m |-> 5, t |-> 1],
      [alias |-> "BCH_31_16_3", named_n |-> 31, named_k |-> 16, m |-> 5, t |-> 2],
      [alias |-> "BCH_63_51_3", named_n |-> 63, named_k |-> 51, m |-> 6, t |-> 1],
      [alias |-> "BCH_127_120_3", named_n |-> 127, named_k |-> 120, m |-> 7, t |-> 1] }

\* a default-constructed object of one of the BCH aliases; n and k are the
\* class constants code_length and data_length
InitAlias ==
    /\ \E a \in BCHAliases :
           kind = [class |-> "BCHCode", alias |-> a.alias, m |-> a.m, t |-> a.t,
                   n |-> Pow2(a.m) - 1, k |-> Pow2(a.m) - 1 - a.m * a.t]
    /\ BCHInit
    /\ NoCall

\* a constructed ReedSolomonCode with six parity symbols (t = 3), on which
\* locators of degree 3 reach forney_algorithm
InitLongParity ==
    /\ kind = RSInstance(Pow2(RS_M) - 1, RS_K_LONG_PARITY, RS_M)
    /\ RSInit
    /\ NoCall

\* a constructed BCHCode
InitBCH ==
    /\ kind \in Instances
    /\ BCHInit
    /\ NoCall

\* a constructed ReedSolomonCode
InitRS ==
    /\ kind \in Instances
    /\ RSInit
    /\ NoCall

(***************************************************************************)
(* Inputs                                                                  *)
(***************************************************************************)
Min(a, b) == IF a <= b THEN a ELSE b

\* the k-bit word whose bit i is bit i of v
BitWord(k, v) == [i \in 0 .. k - 1 |-> (v \div Pow2(i)) % 2]

\* the data words handed to a bit codec
BitWords(k) == {BitWord(k, v) : v \in 0 .. Min(MaxDataValue, Pow2(k) - 1)}

\* the data words handed to the Reed-Solomon codec
SymbolWords(k) == [0 .. k - 1 -> 0 .. Min(MaxSymbol, field_size - 1)]

(***************************************************************************)
(* Calls                                                                   *)
(***************************************************************************)
\* what every encode call leaves behind
Encoded(d, cw) ==
    /\ prev_data' = data
    /\ prev_codeword' = codeword
    /\ data' = d
    /\ codeword' = cw
    /\ received' = cw
    /\ errs' = {}
    /\ result' = None
    /\ pc' = "encoded"
    /\ UNCHANGED <<codec, calls>>

IsHamming == kind.class = "HammingCode"
IsBCH == kind.class = "BCHCode"
IsRS == kind.class = "ReedSolomonCode"
IsSECDED == kind.class = "SECDEDHammingCode"

\* a call of HammingCode::encode
HammingEncode(d) ==
    /\ IsHamming
    /\ Encoded(d, Hamming_encode(d))

\* a call of BCHCode::encode
BCHEncode(d) ==
    /\ IsBCH
    /\ Encoded(d, BCH_encode(d))

\* a call of ReedSolomonCode::encode
RSEncode(d) ==
    /\ IsRS
    /\ Encoded(d, RS_encode(d))

\* the first encode call on the codec
HammingEncodeFirst == \E d \in BitWords(kind.k) : pc = "ready" /\ HammingEncode(d)
BCHEncodeFirst == \E d \in BitWords(kind.k) : pc = "ready" /\ BCHEncode(d)
RSEncodeFirst == \E d \in SymbolWords(kind.k) : pc = "ready" /\ RSEncode(d)

\* an encode call with at most one encode call before it
HammingEncodeAgain ==
    \E d \in BitWords(kind.k) : prev_codeword = None /\ HammingEncode(d)
BCHEncodeAgain ==
    \E d \in BitWords(kind.k) : prev_codeword = None /\ BCHEncode(d)
RSEncodeAgain ==
    \E d \in SymbolWords(kind.k) : prev_codeword = None /\ RSEncode(d)

IsField == kind.class = "GaloisField"

\* the elements handed to the field operations
Elements == 0 .. Min(field_size - 1, MaxElement)

\* a freshly constructed field, on which one operation is called
FieldReady == IsField /\ pc = "ready"

\* a field operation has returned value for the arguments args
Returned(op, args, value) ==
    /\ result' = [op |-> op, args |-> args, value |-> value]
    /\ pc' = "returned"
    /\ UNCHANGED <<codec, calls, data, codeword, prev_data, prev_codeword, received, errs>>

\* a read of log_table[a] that build_tables never wrote
ReadsUnwritten(a) == a # 0 /\ log_table[a] = Unwritten

\* the values a call returns: the computed one, or any element when the
\* call reads a slot of log_table that was never written
Outcomes(unwritten, value) ==
    IF unwritten THEN 0 .. field_size - 1 ELSE {value}

\* a call of GaloisField::add
FieldAdd ==
    /\ FieldReady
    /\ \E a \in Elements, b \in Elements :
           Returned("add", <<a, b>>, add(a, b))

\* a call of GaloisField::multiply
FieldMultiply ==
    /\ FieldReady
    /\ \E a \in Elements, b \in Elements :
           \E v \in Outcomes(a # 0 /\ b # 0 /\ (ReadsUnwritten(a) \/ ReadsUnwritten(b)),
                             multiply(a, b)) :
               Returned("multiply", <<a, b>>, v)

\* a call of GaloisField::divide that does not throw (b # 0)
FieldDivide ==
    /\ FieldReady
    /\ \E a \in Elements, b \in Elements \ {0} :
           \E v \in Outcomes(a # 0 /\ (ReadsUnwritten(a) \/ ReadsUnwritten(b)),
                             divide(a, b)) :
               Returned("divide", <<a, b>>, v)

\* a call of GaloisField::inverse that does not throw (a # 0)
FieldInverse ==
    /\ FieldReady
    /\ \E a \in Elements \ {0} :
           \E v \in Outcomes(ReadsUnwritten(a), inverse(a)) :
               Returned("inverse", <<a>>, v)

\* a call of is_primitive(get_primitive()), as run_comprehensive_tests makes
FieldIsPrimitive ==
    /\ FieldReady
    /\ \E v \in IF ReadsUnwritten(get_primitive) THEN BOOLEAN
                ELSE {is_primitive(get_primitive)} :
           Returned("is_primitive", <<get_primitive>>, v)

\* one round of the distributivity loop of verify_field_axioms:
\* left = a * (b + c), right = a*b + a*c
FieldDistributivity ==
    /\ FieldReady
    /\ \E a \in Elements, b \in Elements, c \in Elements :
           \E left \in Outcomes(a # 0 /\ add(b, c) # 0
                                    /\ (ReadsUnwritten(a) \/ ReadsUnwritten(add(b, c))),
                                multiply(a, add(b, c))) :
           \E ab \in Outcomes(a # 0 /\ b # 0 /\ (ReadsUnwritten(a) \/ ReadsUnwritten(b)),
                              multiply(a, b)) :
           \E ac \in Outcomes(a # 0 /\ c # 0 /\ (ReadsUnwritten(a) \/ ReadsUnwritten(c)),
                              multiply(a, c)) :
               Returned("distributivity", <<a, b, c>>,
                        [left |-> left, right |-> add(ab, ac)])

IsPoly == kind.class = "GFPolynomial"

\* the operation op has left the polynomial p; data names the operation
PolyReturned(op, p) ==
    /\ Len(p) <= MaxCoeffs
    /\ result' = p
    /\ data' = op
    /\ UNCHANGED <<codec, calls, codeword, prev_data, prev_codeword, received, errs, pc>>

\* a call of GFPolynomial::set_coefficient on the object
PolySetCoefficient ==
    /\ IsPoly
    /\ \E index \in 0 .. MaxCoeffs - 1, value \in 0 .. MaxCoef :
           PolyReturned("set_coefficient", set_coefficient(result, index, value))

\* a call of operator+ with another constructed polynomial; the object
\* becomes the sum
PolyPlus ==
    /\ IsPoly
    /\ \E coeffs \in CoefficientLists :
           PolyReturned("operator+", PolyAdd(result, Polynomial(coeffs)))

\* a call of operator* with another constructed polynomial; the object
\* becomes the product
PolyTimes ==
    /\ IsPoly
    /\ \E coeffs \in CoefficientLists :
           PolyReturned("operator*", PolyMul(result, Polynomial(coeffs)))

IsMod == kind.class = "polynomial_mod"

\* the coefficients of the polynomials handed to polynomial_mod: 0, 1, the
\* primitive element alpha and its inverse alpha^(2^m - 2)
ModCoefficients == {0, 1, get_primitive, inverse(get_primitive)}

\* the polynomials handed to polynomial_mod
RECURSIVE ModLists(_)
ModLists(len) ==
    IF len = 0 THEN {<<>>}
    ELSE {Append(l, c) : l \in ModLists(len - 1), c \in ModCoefficients}

ModPolynomials == {Polynomial(l) : l \in ModLists(MaxModLen)}

\* polynomial_mod is entered: quotient = dividend
ModCall ==
    /\ IsMod
    /\ pc = "ready"
    /\ \E dividend \in ModPolynomials :
       \E divisor \in {b \in ModPolynomials : ~is_zero(b)} :
           /\ data' = [dividend |-> dividend, divisor |-> divisor]
           /\ result' = dividend
    /\ pc' = "dividing"
    /\ UNCHANGED <<codec, calls, codeword, prev_data, prev_codeword, received, errs>>

\* one round of the while loop of polynomial_mod
ModRound ==
    /\ IsMod
    /\ pc = "dividing"
    /\ mod_continues(result, data.divisor)
    /\ result' = mod_round(result, data.divisor)
    /\ UNCHANGED <<codec, calls, data, codeword, prev_data, prev_codeword, received,
                   errs, pc>>

\* the loop condition fails and polynomial_mod returns quotient
ModReturn ==
    /\ IsMod
    /\ pc = "dividing"
    /\ ~mod_continues(result, data.divisor)
    /\ pc' = "returned"
    /\ UNCHANGED <<codec, calls, data, codeword, prev_data, prev_codeword, received,
                   errs, result>>

\* the channel flips bit p of a Hamming or BCH word
FlipBit(p) ==
    /\ IsHamming \/ IsBCH \/ IsSECDED
    /\ pc = "encoded"
    /\ p \notin errs
    /\ Cardinality(errs) < MaxErrors
    /\ received' = flip(received, p)
    /\ errs' = errs \cup {p}
    /\ UNCHANGED <<codec, calls, data, codeword, prev_data, prev_codeword, result, pc>>

\* the channel adds the nonzero magnitude e to symbol p of a Reed-Solomon word
CorruptSymbol(p, e) ==
    /\ IsRS
    /\ pc = "encoded"
    /\ p \notin errs
    /\ Cardinality(errs) < MaxErrors
    /\ received' = [received EXCEPT ![p] = add(received[p], e)]
    /\ errs' = errs \cup {p}
    /\ UNCHANGED <<codec, calls, data, codeword, prev_data, prev_codeword, result, pc>>

\* what every decode call leaves behind
Decoded(r) ==
    /\ pc = "encoded"
    /\ result' = r
    /\ pc' = "decoded"
    /\ UNCHANGED <<codec, calls, data, codeword, prev_data, prev_codeword, received, errs>>

\* a call of HammingCode::decode
HammingDecode ==
    /\ IsHamming
    /\ Decoded([op |-> "decode", data |-> Hamming_decode(received)])

\* a call of HammingCode::decode_with_detection
HammingDecodeWithDetection ==
    /\ IsHamming
    /\ Decoded([op |-> "decode_with_detection"] @@ decode_with_detection(received))

\* a call of BCHCode::decode
BCHDecode ==
    /\ IsBCH
    /\ Decoded(BCH_decode(received))

\* a call of ReedSolomonCode::decode
RSDecode ==
    /\ IsRS
    /\ Decoded(RS_decode(received))

\* the indeterminate values a size_t left unassigned is read as
Indeterminate == 0 .. kind.n

\* a call of encode on a SECDEDHammingCode: the inherited HammingCode::encode
SECDEDEncodeFirst ==
    \E d \in BitWords(kind.k) :
        /\ IsSECDED
        /\ pc = "ready"
        /\ Encoded(d, Hamming_encode(d))

\* a call of SECDEDHammingCode::decode_secded
SECDEDDecode ==
    \E indeterminate \in Indeterminate :
        /\ IsSECDED
        /\ Decoded(decode_secded(received, indeterminate))

\* the channel corrupts one more position of a bit word
FlipSomeBit == \E p \in 0 .. kind.n - 1 : FlipBit(p)

\* the channel corrupts one more symbol of a Reed-Solomon word
CorruptSomeSymbol ==
    \E p \in 0 .. kind.n - 1 : \E e \in 1 .. MaxErrVal : CorruptSymbol(p, e)

\* one word through encode, the channel and decode, per class
NextHamming ==
    \/ HammingEncodeFirst
    \/ FlipSomeBit
    \/ HammingDecode
    \/ HammingDecodeWithDetection

NextBCH ==
    \/ BCHEncodeFirst
    \/ FlipSomeBit
    \/ BCHDecode

NextRS ==
    \/ RSEncodeFirst
    \/ CorruptSomeSymbol
    \/ RSDecode

Next ==
    \/ HammingEncodeFirst
    \/ BCHEncodeFirst
    \/ RSEncodeFirst
    \/ FlipSomeBit
    \/ CorruptSomeSymbol
    \/ HammingDecode
    \/ HammingDecodeWithDetection
    \/ BCHDecode
    \/ RSDecode

\* every class
Spec == Init /\ [][Next]_vars

\* a HammingCode object
SpecHamming == InitHamming /\ [][NextHamming]_vars

\* a BCHCode object
SpecBCH == InitBCH /\ [][NextBCH]_vars

\* a ReedSolomonCode object
SpecRS == InitRS /\ [][NextRS]_vars

\* one word through a SECDEDHammingCode object
NextSECDED ==
    \/ SECDEDEncodeFirst
    \/ FlipSomeBit
    \/ SECDEDDecode

SpecSECDED == InitSECDED /\ [][NextSECDED]_vars

\* calls on a GaloisField object
NextField ==
    \/ FieldAdd
    \/ FieldMultiply
    \/ FieldDivide
    \/ FieldInverse
    \/ FieldIsPrimitive
    \/ FieldDistributivity

\* a field built on its default primitive polynomial
SpecField == InitField /\ [][NextField]_vars

\* calls on a field whatever built it
NextFieldOf ==
    \/ FieldAdd
    \/ FieldMultiply
    \/ FieldInverse

\* the field of a default-constructed codec or of a supplied polynomial
SpecFieldOf == InitFieldOf /\ [][NextFieldOf]_vars

\* operations on a GFPolynomial object
NextPoly ==
    \/ PolySetCoefficient
    \/ PolyPlus
    \/ PolyTimes

SpecPoly == InitPoly /\ [][NextPoly]_vars

\* two encode calls in a row on one codec
NextDist ==
    \/ HammingEncodeAgain
    \/ BCHEncodeAgain
    \/ RSEncodeAgain

SpecDist == Init /\ [][NextDist]_vars

\* bit i of the number v
RECURSIVE bit_of(_, _)
bit_of(v, i) ==
    IF v = 0 THEN 0 ELSE IF i = 0 THEN v % 2 ELSE bit_of(v \div 2, i - 1)

\* an encode call on an object of a BCH alias, with at most one encode call
\* before it; the data word holds the bits of a number up to MaxDataValue
AliasEncode ==
    /\ IsBCH
    /\ prev_codeword = None
    /\ \E v \in 0 .. MaxDataValue :
           BCHEncode([i \in 0 .. kind.k - 1 |-> bit_of(v, i)])

\* encode calls on an object of a BCH alias
NextAlias == AliasEncode

SpecAlias == InitAlias /\ [][NextAlias]_vars

\* a call on the shared instance has returned value for the argument arg
Called(op, arg, value) ==
    /\ calls' = Append(calls, [op |-> op, arg |-> arg, value |-> value])
    /\ UNCHANGED <<codec, data, codeword, prev_data, prev_codeword, received,
                   errs, result, pc>>

\* one more call can be made on the instance
CallsOpen == Len(calls) < MaxCalls

\* the data words handed to the calls (Reed-Solomon: symbols 0 and 1)
CallData == {BitWord(kind.k, v) : v \in 0 .. MaxCallData}

\* the word with position p corrupted; p = kind.n leaves it as it is
corrupted(word, p) ==
    IF p >= kind.n THEN word
    ELSE IF IsRS THEN [word EXCEPT ![p] = add(word[p], 1)]
    ELSE flip(word, p)

\* calls of the public operations of HammingCode
CallHammingEncode ==
    /\ IsHamming
    /\ CallsOpen
    /\ \E d \in CallData : Called("encode", d, Hamming_encode(d))

CallHammingDecode ==
    /\ IsHamming
    /\ CallsOpen
    /\ \E d \in CallData, p \in 0 .. kind.n :
           \E w \in {corrupted(Hamming_encode(d), p)} :
               Called("decode", w, Hamming_decode(w))

CallHammingDecodeWithDetection ==
    /\ IsHamming
    /\ CallsOpen
    /\ \E d \in CallData, p \in 0 .. kind.n :
           \E w \in {corrupted(Hamming_encode(d), p)} :
               Called("decode_with_detection", w, decode_with_detection(w))

CallHammingSyndrome ==
    /\ IsHamming
    /\ CallsOpen
    /\ \E d \in CallData, p \in 0 .. kind.n :
           \E w \in {corrupted(Hamming_encode(d), p)} :
               Called("calculate_syndrome", w, calculate_syndrome(w))

\* calls of the public operations of BCHCode
CallBCHEncode ==
    /\ IsBCH
    /\ CallsOpen
    /\ \E d \in CallData : Called("encode", d, BCH_encode(d))

CallBCHDecode ==
    /\ IsBCH
    /\ CallsOpen
    /\ \E d \in CallData, p \in 0 .. kind.n :
           \E w \in {corrupted(BCH_encode(d), p)} :
               Called("decode", w, BCH_decode(w))

\* calls of the public operations of ReedSolomonCode
CallRSEncode ==
    /\ IsRS
    /\ CallsOpen
    /\ \E d \in CallData : Called("encode", d, RS_encode(d))

CallRSDecode ==
    /\ IsRS
    /\ CallsOpen
    /\ \E d \in CallData, p \in 0 .. kind.n :
           \E w \in {corrupted(RS_encode(d), p)} :
               Called("decode", w, RS_decode(w))

CallRSSyndromes ==
    /\ IsRS
    /\ CallsOpen
    /\ \E d \in CallData, p \in 0 .. kind.n :
           \E w \in {corrupted(RS_encode(d), p)} :
               Called("calculate_syndromes", w, RS_calculate_syndromes(w))

\* calls of the public operations of SECDEDHammingCode
CallSECDEDEncode ==
    /\ IsSECDED
    /\ CallsOpen
    /\ \E d \in CallData : Called("encode", d, Hamming_encode(d))

CallSECDEDDecode ==
    /\ IsSECDED
    /\ CallsOpen
    /\ \E d \in CallData, p \in 0 .. kind.n :
           \E w \in {corrupted(Hamming_encode(d), p)} :
               \E indeterminate \in Indeterminate :
                   Called("decode_secded", w, decode_secded(w, indeterminate))

\* any sequence of calls on one shared instance
NextCalls ==
    \/ CallHammingEncode
    \/ CallHammingDecode
    \/ CallHammingDecodeWithDetection
    \/ CallHammingSyndrome
    \/ CallBCHEncode
    \/ CallBCHDecode
    \/ CallRSEncode
    \/ CallRSDecode
    \/ CallRSSyndromes
    \/ CallSECDEDEncode
    \/ CallSECDEDDecode

SpecCalls == InitCalls /\ [][NextCalls]_vars

\* one word through the Reed-Solomon code with six parity symbols
SpecLongParity == InitLongParity /\ [][NextRS]_vars

\* one call of polynomial_mod, round by round
NextMod ==
    \/ ModCall
    \/ ModRound
    \/ ModReturn

\* a call of polynomial_mod that is never suspended for ever
SpecMod == InitMod /\ [][NextMod]_vars /\ WF_vars(NextMod)

(***************************************************************************)
(* Properties                                                              *)
(***************************************************************************)
\* the number of positions in which two words of length n differ
Distance(a, b, n) == Cardinality({i \in 0 .. n - 1 : a[i] # b[i]})

\* a decode call has returned for a word with w corrupted positions,
\* lo <= w <= hi
DecodedWithErrors(lo, hi) ==
    /\ pc = "decoded"
    /\ Cardinality(errs) >= lo
    /\ Cardinality(errs) <= hi

\* C1: Hamming single-error correction.  After one bit p of encode(d) is
\* flipped, decode_with_detection returns error_detected = true,
\* error_position = p and data = d, and decode returns d.
C1_HammingSingleErrorCorrection ==
    (IsHamming /\ DecodedWithErrors(1, 1)) =>
        /\ result.data = data
        /\ result.op = "decode_with_detection" =>
               /\ result.error_detected
               /\ errs = {result.error_position}

\* C2: BCH correction up to t.  After w distinct bits of encode(d) are
\* flipped, 1 <= w <= t, decode returns success = true, data = d,
\* errors_corrected = w and exactly the flipped positions.
C2_BCHCorrectsUpToT ==
    (IsBCH /\ DecodedWithErrors(1, B_t)) =>
        /\ result.success
        /\ result.data = data
        /\ result.errors_corrected = Cardinality(errs)
        /\ Range(result.error_positions) = errs
        /\ Len(result.error_positions) = Cardinality(errs)

\* C3: Reed-Solomon correction up to t.  After w symbols of encode(d) are
\* replaced by different values, 1 <= w <= t, decode returns success = true,
\* data = d, errors_corrected = w and exactly the corrupted positions.
C3_RSCorrectsUpToT ==
    (IsRS /\ DecodedWithErrors(1, R_t)) =>
        /\ result.success
        /\ result.data = data
        /\ result.errors_corrected = Cardinality(errs)
        /\ Range(result.error_positions) = errs
        /\ Len(result.error_positions) = Cardinality(errs)

\* C4: Hamming round trip.  decode(encode(d)) = d, and
\* decode_with_detection(encode(d)) returns data = d, error_detected = false
\* and error_position = n.
C4_HammingRoundTrip ==
    (IsHamming /\ DecodedWithErrors(0, 0)) =>
        /\ result.data = data
        /\ result.op = "decode_with_detection" =>
               /\ ~result.error_detected
               /\ result.error_position = H_n

\* C4 witness: decode_with_detection has returned for the encoding of a
\* nonzero data word that the channel left alone
C4_Witness ==
    /\ IsHamming
    /\ DecodedWithErrors(0, 0)
    /\ result.op = "decode_with_detection"
    /\ \E i \in 0 .. H_k - 1 : data[i] = 1

\* C5: BCH and Reed-Solomon round trip.  decode(encode(d)) returns
\* success = true, data = d, errors_corrected = 0 and no error positions.
C5_BCHRSRoundTrip ==
    ((IsBCH \/ IsRS) /\ DecodedWithErrors(0, 0)) =>
        /\ result.success
        /\ result.data = data
        /\ result.errors_corrected = 0
        /\ result.error_positions = <<>>

\* C6: systematic layout.  Hamming and Reed-Solomon codewords carry data
\* symbol i at position i; BCH codewords carry data bit i at position
\* i + (n - k).
C6_SystematicLayout ==
    pc # "ready" =>
        \A i \in 0 .. kind.k - 1 :
            IF IsBCH THEN codeword[i + (kind.n - kind.k)] = data[i]
            ELSE codeword[i] = data[i]

\* C6 witness: a Reed-Solomon codeword of a data word whose symbols are all
\* nonzero has been returned
C6_Witness ==
    /\ IsRS
    /\ pc = "encoded"
    /\ \A i \in 0 .. R_k - 1 : data[i] # 0

\* C7: the encoder's output lies in the code.  Every syndrome that
\* calculate_syndromes computes on encode(d) is zero (BCH: S_1 .. S_2t,
\* Reed-Solomon: S_1 .. S_(n-k)).
C7_EncodedSyndromesZero ==
    /\ (IsBCH /\ pc # "ready") =>
           \A j \in 1 .. 2 * B_t : BCH_calculate_syndromes(codeword)[j] = 0
    /\ (IsRS /\ pc # "ready") =>
           \A j \in 1 .. R_parity : RS_calculate_syndromes(codeword)[j] = 0

\* C8: Hamming minimum distance.  The encodings of two distinct data words
\* differ in at least min_distance = 3 bits.
C8_HammingMinDistance ==
    (IsHamming /\ prev_codeword # None /\ prev_data # data) =>
        Distance(codeword, prev_codeword, H_n) >= Hamming_min_distance

\* C9: Reed-Solomon minimum distance.  The encodings of two distinct data
\* words differ in at least min_distance = n - k + 1 symbols.
C9_RSMinDistance ==
    (IsRS /\ prev_codeword # None /\ prev_data # data) =>
        Distance(codeword, prev_codeword, R_n) >= R_parity + 1

\* C9 witness: two distinct data words have been encoded by the full-length
\* Reed-Solomon code and their codewords are exactly n - k + 1 apart
C9_Witness ==
    /\ IsRS
    /\ R_n = Pow2(kind.m) - 1
    /\ prev_codeword # None
    /\ prev_data # data
    /\ Distance(codeword, prev_codeword, R_n) = R_parity + 1

\* C10: beyond-t behaviour.  After more than t positions of encode(d) are
\* corrupted, BCH and Reed-Solomon decode return success = false or a data
\* word different from d.
C10_BeyondT ==
    ((IsBCH \/ IsRS) /\ DecodedWithErrors(kind.t + 1, kind.n)) =>
        (~result.success \/ result.data # data)

\* C11: SECDED double-error detection.  After two distinct bits of encode(d)
\* are flipped, decode_secded returns status DOUBLE_ERROR_DETECTED.
C11_SECDEDDoubleErrorDetected ==
    (IsSECDED /\ DecodedWithErrors(2, 2)) =>
        result.status = "DOUBLE_ERROR_DETECTED"

\* C12: SECDED recovery.  decode_secded returns data = d with status NO_ERROR
\* for encode(d) and with status SINGLE_ERROR_CORRECTED for encode(d) with one
\* bit flipped.
C12_SECDEDRecovery ==
    (IsSECDED /\ DecodedWithErrors(0, 1)) =>
        /\ result.data = data
        /\ result.status =
               IF errs = {} THEN "NO_ERROR" ELSE "SINGLE_ERROR_CORRECTED"

\* C13: decoder failure result.  Whenever BCH or Reed-Solomon decode returns
\* success = false, data is the systematic slice of the received word (BCH:
\* bits n-k .. n-1, Reed-Solomon: symbols 0 .. k-1), errors_corrected = 0 and
\* error_positions is empty.
C13_DecoderFailureResult ==
    ((IsBCH \/ IsRS) /\ pc = "decoded" /\ ~result.success) =>
        /\ result.data =
               [i \in 0 .. kind.k - 1 |->
                   IF IsBCH THEN received[i + (kind.n - kind.k)] ELSE received[i]]
        /\ result.errors_corrected = 0
        /\ result.error_positions = <<>>

\* the denominator forney_algorithm computes for one error position: the
\* polynomial built from derivative_coeffs evaluated at alpha^(n-1-position)
forney_denominator(error_locator, position) ==
    evaluate(Polynomial(derivative_coeffs(error_locator, 1)),
             power(get_primitive, R_n - 1 - position))

\* the error positions decode hands to forney_algorithm for the received
\* word, each with its denominator; none when decode returns before the call
forney_denominators ==
    LET syndromes == RS_calculate_syndromes(received)
    IN IF \A j \in 1 .. Len(syndromes) : syndromes[j] = 0 THEN <<>>
       ELSE Only({
              Only({IF Len(error_positions) > R_t THEN <<>>
                    ELSE [i \in 1 .. Len(error_positions) |->
                             forney_denominator(error_locator, error_positions[i])] :
                    error_positions \in {RS_chien_search(error_locator)}}) :
              error_locator \in {RS_berlekamp_massey(syndromes)}})

\* C14: Forney failure.  Reed-Solomon decode returns success = false whenever
\* the Forney denominator of a found error position is zero.
C14_ForneyFailure ==
    (IsRS /\ pc = "decoded" /\ \E i \in DOMAIN forney_denominators :
                                   forney_denominators[i] = 0) =>
        ~result.success

\* the field object was built from the default primitive polynomial
BuiltOnDefault == IsField /\ kind.origin = "galois_utils"

\* C15: field table invariants.  In GaloisField<m> built on the default
\* primitive polynomial, m = 3 .. 8, exp[0] = 1, the entries exp[0 .. 2^m-2]
\* are pairwise distinct nonzero values below 2^m, exp[log[a]] = a for every
\* nonzero a, and is_primitive(get_primitive()) returns true.
C15_FieldTables ==
    BuiltOnDefault =>
        /\ exp_table[0] = 1
        /\ \A i \in 0 .. field_size - 2 : exp_table[i] \in 1 .. field_size - 1
        /\ Cardinality({exp_table[i] : i \in 0 .. field_size - 2}) = field_size - 1
        /\ \A a \in 1 .. field_size - 1 : exp_table[log_table[a]] = a
        /\ (pc = "returned" /\ result.op = "is_primitive") => result.value

\* C15 witness: is_primitive(get_primitive()) has returned on the largest
\* field, GF(2^8)
C15_Witness ==
    /\ BuiltOnDefault
    /\ kind.m = MaxDefaultM
    /\ pc = "returned"
    /\ result.op = "is_primitive"

\* C16: field division.  divide(a, b), b nonzero, returns 0 for a = 0 and
\* otherwise the q with multiply(q, b) = a, also when log[a] < log[b].
C16_FieldDivision ==
    (BuiltOnDefault /\ pc = "returned" /\ result.op = "divide") =>
        /\ multiply(result.value, result.args[2]) = result.args[1]
        /\ result.args[1] = 0 => result.value = 0

\* C17: field distributivity.  multiply(a, add(b, c)) =
\* add(multiply(a, b), multiply(a, c)) for all a, b, c, zero included.
C17_FieldDistributivity ==
    (BuiltOnDefault /\ pc = "returned" /\ result.op = "distributivity") =>
        result.value.left = result.value.right

\* C17 witness: the two sides have been computed for a nonzero a and a
\* nonzero b equal to c, so that add(b, c) = 0
C17_Witness ==
    /\ BuiltOnDefault
    /\ pc = "returned"
    /\ result.op = "distributivity"
    /\ result.args[1] # 0
    /\ result.args[2] # 0
    /\ result.args[2] = result.args[3]

\* poly is a primitive polynomial of degree m over GF(2): it has degree m and
\* x has multiplicative order 2^m - 1 modulo poly
PrimitivePolynomial(m, poly) ==
    /\ poly \in Pow2(m) .. 2 * Pow2(m) - 1
    /\ \A i \in 1 .. Pow2(m) - 2 : value_after(Pow2(m), poly, i) # 1
    /\ value_after(Pow2(m), poly, Pow2(m) - 1) = 1

\* C18: rejection of non-primitive polynomials.  Constructing GaloisField<m>
\* with a supplied polynomial that is not primitive of degree m fails with an
\* invalid-parameters error and leaves no field to call.
C18_NonPrimitiveRejected ==
    (IsField /\ kind.origin = "supplied"
            /\ ~PrimitivePolynomial(kind.m, primitive_poly)) =>
        pc = "invalid_parameters"

\* the default primitive polynomial listed for m
ListedDefault(m) ==
    CASE m = 3 -> 11
      [] m = 4 -> 19
      [] m = 5 -> 37
      [] m = 6 -> 67
      [] m = 7 -> 137
      [] m = 8 -> 285
      [] m = 10 -> 1033
      [] m = 12 -> 4179

\* C19: default primitive polynomials.  The field of a default-constructed
\* BCH or Reed-Solomon codec, and the field built on
\* galois_utils::get_default_primitive, are built on the polynomial listed
\* for m, and every entry of exp_table is below 2^m.
C19_DefaultPolynomials ==
    (IsField /\ kind.origin \in {"BCHCode", "ReedSolomonCode", "galois_utils"}) =>
        /\ primitive_poly = ListedDefault(kind.m)
        /\ \A i \in 0 .. field_size - 2 : exp_table[i] < field_size

\* C20: polynomial normalisation.  After construction from any coefficient
\* list and after any sequence of set_coefficient, operator+ and operator*,
\* the coefficient list is nonempty and is [0] or ends in a nonzero entry.
C20_PolynomialNormalised ==
    IsPoly =>
        /\ Len(result) >= 1
        /\ result = <<0>> \/ result[Len(result)] # 0

\* C20 witness: set_coefficient has turned a polynomial into the zero
\* polynomial, or operator+ has cancelled the leading coefficients of two
\* polynomials of full length
C20_Witness ==
    /\ IsPoly
    /\ \/ data = "set_coefficient" /\ result = <<0>>
       \/ data = "operator+" /\ Len(result) = MaxCoeffs - 1

\* the q with q * y = x in the field (y nonzero)
exact_quotient(x, y) == CHOOSE q \in 0 .. field_size - 1 : multiply(q, y) = x

\* the remainder of the long division of a by b (b nonzero)
RECURSIVE remainder_of(_, _)
remainder_of(a, b) ==
    IF is_zero(a) \/ degree(a) < degree(b) THEN a
    ELSE LET shift == degree(a) - degree(b)
             factor == exact_quotient(a[Len(a)], b[Len(b)])
         IN remainder_of(
                PolyAdd(a, Polynomial([i \in 1 .. Len(a) |->
                                          IF i - 1 >= shift
                                          THEN multiply(factor, b[i - shift])
                                          ELSE 0])),
                b)

C22_CodecImmutability ==
    /\ [][codec' = codec]_vars
    /\ [](\A i \in 1 .. Len(calls) : \A j \in 1 .. Len(calls) :
            (calls[i].op = calls[j].op /\ calls[i].arg = calls[j].arg) =>
                calls[i].value = calls[j].value)

\* the alias of the BCH object
alias_of == CHOOSE a \in BCHAliases : a.alias = kind.alias

\* C23: BCH alias parameters.  The BCHCode<m,t> of each alias BCH_n_k_* has
\* code_length = n and data_length = k.
C23_BCHAliasParameters ==
    (IsBCH /\ "alias" \in DOMAIN kind) =>
        /\ B_n = alias_of.named_n
        /\ B_k = alias_of.named_k

\* C24: BCH generator degree.  The generator polynomial built by the
\* BCHCode<m,t> constructor has degree parity_length = m * t.
C24_BCHGeneratorDegree ==
    IsBCH => degree(generator_poly) = B_parity

\* the syndrome H * e_p of the single-bit pattern e_p, read as a number
single_bit_syndrome(p) ==
    to_ulong(calculate_syndrome([j \in 0 .. H_n - 1 |-> IF j = p THEN 1 ELSE 0]))

\* C25: Hamming syndrome lookup.  After construction, for every position p
\* the syndrome of the single-bit pattern e_p is the number p + 1, the
\* syndromes of distinct positions are distinct, and syndrome_table maps the
\* syndrome of e_p to p.
C25_HammingSyndromeLookup ==
    IsHamming =>
        \A p \in 0 .. H_n - 1 :
            /\ single_bit_syndrome(p) = p + 1
            /\ \A q \in 0 .. H_n - 1 :
                   q # p => single_bit_syndrome(q) # single_bit_syndrome(p)
            /\ syndrome_table[single_bit_syndrome(p)] = p

\* C26: Hamming failure indication.  decode_with_detection returns
\* error_detected = false only for a received word with zero syndrome; a word
\* whose nonzero syndrome maps to the sentinel n comes back with its raw data
\* and with an indication other than the one of an error-free word
\* (error_detected = false, error_position = n).
C26_HammingFailureIndication ==
    (IsHamming /\ pc = "decoded" /\ result.op = "decode_with_detection") =>
        LET syndrome == to_ulong(calculate_syndrome(received))
        IN /\ ~result.error_detected => syndrome = 0
           /\ (syndrome # 0 /\ syndrome_table[syndrome] = H_n) =>
                  /\ result.data = [i \in 0 .. H_k - 1 |-> received[i]]
                  /\ <<result.error_detected, result.error_position>> # <<FALSE, H_n>>

\* the syndromes decode has handed to berlekamp_massey for the received word
\* (decode returns before the call when every syndrome is zero)
bm_called ==
    /\ IsRS
    /\ pc = "decoded"
    /\ \E i \in 1 .. R_parity : RS_calculate_syndromes(received)[i] # 0

\* C27: Berlekamp-Massey equivalence.  For the syndromes of a received word,
\* ReedSolomonCode::berlekamp_massey returns the locator polynomial that
\* BCHCode::berlekamp_massey returns for the same sequence.
C27_BerlekampMasseyEquivalence ==
    bm_called =>
        \A syndromes \in {RS_calculate_syndromes(received)} :
            RS_berlekamp_massey(syndromes) = BCH_berlekamp_massey(syndromes)

\* the positions chien_search returns for the Berlekamp-Massey locator of the
\* syndromes of the received word, as decode computes them
located_positions ==
    IF IsBCH
    THEN Range(BCH_chien_search(
                   BCH_berlekamp_massey(BCH_calculate_syndromes(received))))
    ELSE Range(RS_chien_search(
                   RS_berlekamp_massey(RS_calculate_syndromes(received))))

\* C28: error location on the zero codeword.  After 1 .. t positions of the
\* all-zero codeword are corrupted, chien_search on the Berlekamp-Massey
\* locator of the syndromes returns exactly the corrupted positions.
C28_ErrorLocation ==
    ((IsBCH \/ IsRS) /\ DecodedWithErrors(1, kind.t)
                     /\ \A i \in 0 .. kind.n - 1 : codeword[i] = 0) =>
        located_positions = errs

\* the locator decode has handed to forney_algorithm for the received word;
\* None when decode returns before the call
forney_locator ==
    LET syndromes == RS_calculate_syndromes(received)
    IN IF \A j \in 1 .. Len(syndromes) : syndromes[j] = 0 THEN None
       ELSE Only({IF Len(RS_chien_search(error_locator)) > R_t THEN None
                  ELSE error_locator :
                  error_locator \in {RS_berlekamp_massey(syndromes)}})

\* the formal derivative in characteristic two: the terms of odd index i,
\* each at x^(i-1)
formal_derivative(p) ==
    Polynomial([i \in 1 .. degree(p) |->
                   IF i % 2 = 1 THEN coefficient(p, i) ELSE 0])

\* C29: Forney derivative.  For every locator of degree up to t handed to
\* forney_algorithm, the polynomial evaluated as the denominator is the
\* formal derivative of the locator.
C29_ForneyDerivative ==
    (IsRS /\ pc = "decoded") =>
        \A error_locator \in {forney_locator} :
            (error_locator # None /\ degree(error_locator) <= R_t) =>
                Polynomial(derivative_coeffs(error_locator, 1)) =
                    formal_derivative(error_locator)

\* the syndromes of a word, as the codec's calculate_syndromes computes them
syndromes_of(word) ==
    IF IsBCH THEN BCH_calculate_syndromes(word) ELSE RS_calculate_syndromes(word)

\* the received word with the corrections of the returned result applied:
\* BCH flips the reported positions, Reed-Solomon adds the Forney magnitudes
corrected_word ==
    IF IsBCH
    THEN [i \in 0 .. B_n - 1 |->
             IF i \in Range(result.error_positions)
             THEN 1 - received[i] ELSE received[i]]
    ELSE IF result.error_positions = <<>> THEN received
    ELSE Only({apply_corrections(
                   received, result.error_positions,
                   forney_algorithm(syndromes, RS_berlekamp_massey(syndromes),
                                    result.error_positions), 1) :
               syndromes \in {RS_calculate_syndromes(received)}})

\* C30: success implies a codeword.  Whenever BCH or Reed-Solomon decode
\* returns success = true, the corrected word has all-zero syndromes, and
\* success = true with errors_corrected = 0 is returned only for a received
\* word whose syndromes are all zero.
C30_SuccessImpliesCodeword ==
    ((IsBCH \/ IsRS) /\ pc = "decoded" /\ result.success) =>
        /\ \A s \in Range(syndromes_of(corrected_word)) : s = 0
        /\ result.errors_corrected = 0 =>
               \A s \in Range(syndromes_of(received)) : s = 0

====
